---- MODULE Spec2Model ----
(***************************************************************************)
(* The Python front-end wrappers of geocat.ncomp (rgrid2rcm, rcm2rgrid,    *)
(* rcm2points, linint2_points, grid2triple, triple2grid, moc_globe_atl,    *)
(* eofunc, eofunc_ts) as a state                                           *)
(* machine: one call of a wrapper is one action that runs the wrapper's    *)
(* checks in source order and ends either in an exception or in a result.  *)
(* Arrays are modelled by what the wrappers read of them: shape, storage   *)
(* (numpy / dask / other), chunk layout and dtype.  A result that is a     *)
(* lazy dask graph is then computed block by block, in any order.  Some    *)
(* calls also carry the numbers of small arrays; for these the compiled    *)
(* kernels (bilinear, inverse distance, grid <-> triples) are evaluated as  *)
(* their documentation describes them.                                     *)
(***************************************************************************)
EXTENDS Integers, Sequences, FiniteSets, TLC

\* ----------------------------------------------------------------- bounds
\* Axis lengths 1..MaxDim of the arrays of the shape-check inputs.
MaxDim == 2
\* Grid sizes 2..MaxGrid of the well-formed inputs (storage / chunk inputs).
MaxGrid == 3
\* Length 1..MaxBatch of the leading (batch) axis of fi.
MaxBatch == 3
\* Field data take the values 0..MaxVal.
MaxVal == 1

VARIABLES
    pc,          \* "idle" | "raised" | "returned"
    fn,          \* the wrapper that was called ("none" while idle)
    args,        \* the arguments of the call, as the caller passed them
    raised,      \* the exception the call ended with, "none" otherwise
    kernelCalls, \* direct invocations of a compiled _ncomp kernel in the call
    lazy,        \* the map_blocks graph the call built (NoLazy if none)
    fo,          \* the array handed back to the caller (NoResult if none)
    out,         \* fo's 2-D slices: out[b] = input slice it was computed from, 0 = not computed
    computed,    \* blocks of the lazy graph that have been executed
    inputs,      \* the caller's argument objects as the call left them
    num          \* the numbers of the call: values passed, kernel result

vars == <<pc, fn, args, raised, kernelCalls, lazy, fo, out, computed, inputs, num>>

\* ---------------------------------------------------------------- helpers
RECURSIVE SeqSum(_)
SeqSum(s) == IF s = <<>> THEN 0 ELSE Head(s) + SeqSum(Tail(s))

\* All ways of cutting an axis of length n into consecutive chunks.
RECURSIVE Compositions(_)
Compositions(n) ==
    IF n = 0 THEN {<<>>}
    ELSE UNION {{<<k>> \o c : c \in Compositions(n - k)} : k \in 1..n}

\* All chunk layouts of a dask array of the given shape (one tuple per axis).
RECURSIVE ChunkLayouts(_)
ChunkLayouts(shape) ==
    IF shape = <<>> THEN {<<>>}
    ELSE {<<c>> \o rest : c \in Compositions(Head(shape)),
                          rest \in ChunkLayouts(Tail(shape))}

\* dask: the shape of an array is the per-axis sum of its chunks.
ChunkShape(chunks) == [i \in 1..Len(chunks) |-> SeqSum(chunks[i])]

\* Number of 2-D slices of a field: the product of its leading axes
\* (the model carries at most one leading axis).
NSlices(shape) == IF Len(shape) > 2 THEN shape[1] ELSE 1

\* Python: the last two items of a list (chunks[-2:]); shorter lists give all.
Last2(s) == SubSeq(s, IF Len(s) > 2 THEN Len(s) - 1 ELSE 1, Len(s))
\* Python: everything but the last two items (chunks[:-2]).
ButLast2(s) == SubSeq(s, 1, IF Len(s) > 2 THEN Len(s) - 2 ELSE 0)

\* ------------------------------------------------- Python expression values
\* A condition of an `if` evaluates to "T", "F", or dies with "IndexError"
\* when a shape tuple is indexed past its end.
\* a or b, left to right with short circuit.
Or2(a, b) == IF a = "F" THEN b ELSE a

\* s[i] != t[j] on shape tuples (1-based here).
Ne(s, i, t, j) ==
    IF i < 1 \/ j < 1 \/ Len(s) < i \/ Len(t) < j THEN "IndexError"
    ELSE IF s[i] # t[j] THEN "T" ELSE "F"

\* s[i] < 2 on a shape tuple.
Lt2(s, i) ==
    IF i < 1 \/ Len(s) < i THEN "IndexError"
    ELSE IF s[i] < 2 THEN "T" ELSE "F"

\* ------------------------------------------------------- module namespaces
\* The package names each module binds with its import statements.
Imports(mod) ==
    CASE mod = "rgrid2rcm"     -> {"_ncomp", "ChunkError", "DimensionError", "MetaError"}
      [] mod = "rcm2rgrid"     -> {}
      [] mod = "rcm2points"    -> {"_ncomp"}
      [] mod = "linint2points" -> {"_ncomp"}
      [] mod = "grid2triple"   -> {"_ncomp"}
      [] mod = "triple2grid"   -> {"_ncomp", "DimensionError", "MetaError"}
      [] mod = "moc_globe_alt" -> {"_ncomp"}
      [] mod = "eofunc"        -> {"_ncomp"}

\* `raise Name(...)`: looking up an unbound global raises NameError instead.
Raise(mod, name) == IF name \in Imports(mod) THEN name ELSE "NameError"

\* `if cond: raise err`: what the statement ends with, "pass" if it falls through.
Guard(cond, mod, err) ==
    IF cond = "IndexError" THEN "IndexError"
    ELSE IF cond = "T" THEN Raise(mod, err)
    ELSE "pass"

\* ------------------------------------------------------------ call results
NoLazy == [kernel |-> "none"]
NoResult == [kernel |-> "none"]

\* A call that ended in exception e before any kernel work.
Failed(e) ==
    [raised |-> e, kernelCalls |-> 0, lazy |-> NoLazy, fo |-> NoResult, out |-> <<>>]

\* --------------------------------------------------------- compiled kernels
\* The kernels live in the compiled extension _ncomp.  What the wrappers'
\* documentation states of a kernel's result: the leading axes of fi are
\* kept, the two rightmost are replaced by the target's, the dtype is double
\* if fi is double and float otherwise; every 2-D slice of the result is
\* computed from the 2-D slice of fi at the same leading index.
KernelDType(dtype) == IF dtype = "float64" THEN "float64" ELSE "float32"

\* The result slices of a kernel call on n consecutive 2-D slices of fi, the
\* first being fi's slice `first`: slice k is computed from fi's slice
\* first + k - 1 and from nothing else.
KernelSlices(first, n) == [k \in 1..n |-> first + k - 1]

KernelND(kernel, fi, target) ==
    [raised |-> "none", kernelCalls |-> 1, lazy |-> NoLazy,
     fo |-> [kernel |-> kernel,
             shape |-> ButLast2(fi.shape) \o target,
             dtype |-> KernelDType(fi.dtype)],
     out |-> KernelSlices(1, NSlices(fi.shape))]

\* `_ncomp._kernel(...)`: the module must have bound _ncomp.
InvokeKernel(mod, kernel, fi, target) ==
    IF "_ncomp" \in Imports(mod) THEN KernelND(kernel, fi, target)
    ELSE Failed("NameError")

\* map_blocks(_ncomp._kernel, ..., chunks=chunks, dtype=dtype, ...): builds the
\* lazy graph, one unit of work per block of fi_data; nothing is computed yet.
MapBlocks(mod, kernel, fi, chunks, dtype) ==
    IF "_ncomp" \notin Imports(mod) THEN Failed("NameError")
    ELSE [raised |-> "none", kernelCalls |-> 0,
          lazy |-> [kernel |-> kernel, chunks |-> chunks, dtype |-> dtype,
                    inchunks |-> fi.chunks],
          fo |-> [kernel |-> kernel, shape |-> ChunkShape(chunks), dtype |-> dtype],
          out |-> [b \in 1..NSlices(fi.shape) |-> 0]]

\* The check as its message intends it: the input field is a DataArray.
InputIsDataArray_fi(fi) == fi.xr

\* isinstance(input, xr.DataArray): the wrappers have no parameter or local
\* named `input`, so the name is Python's builtin function, never a DataArray.
InputIsDataArray(fi) == FALSE

\* The closing `if meta and isinstance(input, xr.DataArray): raise MetaError
\* else: fo = xr.DataArray(fo)`, run on the result r of the dispatch.
MetaStep(mod, meta, fi, r) ==
    IF meta /\ InputIsDataArray(fi)
    THEN [r EXCEPT !.raised = Raise(mod, "MetaError"), !.fo = NoResult]
    ELSE r

\* ------------------------------------------------------ shared conditions
\* lat2d.shape[0] != lon2d.shape[0] or lat2d.shape[1] != lon2d.shape[1]
GridsDiffer(lat2d, lon2d) == Or2(Ne(lat2d, 1, lon2d, 1), Ne(lat2d, 2, lon2d, 2))

\* The size check on the first axis only.
GridTooSmall_axis0(lat2d, lon2d) == Or2(Lt2(lat2d, 1), Lt2(lon2d, 1))

\* lat2d.shape[0] < 2 or lon2d.shape[0] < 2 or lat2d.shape[1] < 2 or lon2d.shape[1] < 2
GridTooSmall(lat2d, lon2d) ==
    Or2(Lt2(lat2d, 1), Or2(Lt2(lon2d, 1), Or2(Lt2(lat2d, 2), Lt2(lon2d, 2))))

\* The length check with the first vector compared against itself.
PointsDiffer_self(p, q) == Ne(p, 1, p, 1)

\* lat1dPoints.shape[0] != lon1dPoints.shape[0]  /  xo.shape[0] != yo.shape[0]
PointsDiffer(p, q) == Ne(p, 1, q, 1)

\* fi.ndim < 2
FewDims(fi) == IF Len(fi.shape) < 2 THEN "T" ELSE "F"

\* The field check on the second-to-last axis only.
FieldMismatch_left(fi, a, i, b, j) == Ne(fi.shape, Len(fi.shape) - 1, a, i)

\* fi.shape[fi.ndim - 2] != a.shape[i] or fi.shape[fi.ndim - 1] != b.shape[j]
FieldMismatch(fi, a, i, b, j) ==
    Or2(Ne(fi.shape, Len(fi.shape) - 1, a, i), Ne(fi.shape, Len(fi.shape), b, j))

\* ---------------------------------------------------------------- rgrid2rcm
\* The storage dispatch of rgrid2rcm (fi_data = fi.data onwards).
rgrid2rcm_dispatch(a) ==
    IF a.fi.storage = "dask" THEN
        \* chunks = list(fi.chunks)
        IF Last2(a.fi.chunks) # <<a.lon1d, a.lat1d>>
        THEN Failed(Raise("rgrid2rcm", "ChunkError"))
        ELSE MapBlocks("rgrid2rcm", "_rgrid2rcm", a.fi,
                       ButLast2(a.fi.chunks) \o <<a.lon2d, a.lat2d>>,
                       a.fi.dtype)
    ELSE IF a.fi.storage = "numpy" THEN
        InvokeKernel("rgrid2rcm", "_rgrid2rcm", a.fi, SubSeq(a.lat2d, 1, 2))
    ELSE Failed("TypeError")

rgrid2rcm(a) ==
    LET g1 == Guard(GridsDiffer(a.lat2d, a.lon2d), "rgrid2rcm", "DimensionError")
        g2 == Guard(GridTooSmall(a.lat2d, a.lon2d), "rgrid2rcm", "DimensionError")
        g3 == Guard(FewDims(a.fi), "rgrid2rcm", "DimensionError")
        g4 == Guard(FieldMismatch(a.fi, a.lat1d, 1, a.lon1d, 1),
                    "rgrid2rcm", "DimensionError")
        d  == rgrid2rcm_dispatch(a)
    IN  IF g1 # "pass" THEN Failed(g1)
        ELSE IF g2 # "pass" THEN Failed(g2)
        ELSE IF g3 # "pass" THEN Failed(g3)
        ELSE IF g4 # "pass" THEN Failed(g4)
        ELSE IF d.raised # "none" THEN d
        ELSE MetaStep("rgrid2rcm", a.meta, a.fi, d)

\* ---------------------------------------------------------------- rcm2rgrid
rcm2rgrid_dispatch(a) ==
    IF a.fi.storage = "dask" THEN
        IF Last2(a.fi.chunks) # <<a.lon2d, a.lat2d>>
        THEN Failed(Raise("rcm2rgrid", "ChunkError"))
        ELSE MapBlocks("rcm2rgrid", "_rcm2rgrid", a.fi,
                       ButLast2(a.fi.chunks) \o <<a.lon1d, a.lat1d>>,
                       a.fi.dtype)
    ELSE IF a.fi.storage = "numpy" THEN
        InvokeKernel("rcm2rgrid", "_rcm2rgrid", a.fi, <<a.lat1d[1], a.lon1d[1]>>)
    ELSE Failed("TypeError")

rcm2rgrid(a) ==
    LET g1 == Guard(GridsDiffer(a.lat2d, a.lon2d), "rcm2rgrid", "DimensionError")
        g2 == Guard(GridTooSmall(a.lat2d, a.lon2d), "rcm2rgrid", "DimensionError")
        g3 == Guard(FewDims(a.fi), "rcm2rgrid", "DimensionError")
        g4 == Guard(FieldMismatch(a.fi, a.lat2d, 1, a.lon2d, 2),
                    "rcm2rgrid", "DimensionError")
        d  == rcm2rgrid_dispatch(a)
    IN  IF g1 # "pass" THEN Failed(g1)
        ELSE IF g2 # "pass" THEN Failed(g2)
        ELSE IF g3 # "pass" THEN Failed(g3)
        ELSE IF g4 # "pass" THEN Failed(g4)
        ELSE IF d.raised # "none" THEN d
        ELSE MetaStep("rcm2rgrid", a.meta, a.fi, d)

\* A direct kernel call of the wrappers whose result is not traced further.
KernelCall(mod, kernel) ==
    IF "_ncomp" \in Imports(mod)
    THEN [raised |-> "none", kernelCalls |-> 1, lazy |-> NoLazy,
          fo |-> [kernel |-> kernel], out |-> <<>>]
    ELSE Failed("NameError")

\* An omitted (None) coordinate argument.
NoneArg == <<-1>>

\* x.ndim > 1
NdimGt1(s) == IF Len(s) > 1 THEN "T" ELSE "F"

\* ---------------------------------------------------------------- rcm2points
\* fi_data = fi.values is a numpy.ndarray whatever fi wraps, so the TypeError
\* branch of `if isinstance(fi_data, np.ndarray)` is never taken.
rcm2points_dispatch(a) == KernelCall("rcm2points", "_rcm2points")

rcm2points(a) ==
    LET g1 == Guard(GridsDiffer(a.lat2d, a.lon2d), "rcm2points", "DimensionError")
        gp == Guard(PointsDiffer(a.lat1dPoints, a.lon1dPoints),
                    "rcm2points", "DimensionError")
        g2 == Guard(GridTooSmall(a.lat2d, a.lon2d), "rcm2points", "DimensionError")
        g3 == Guard(FewDims(a.fi), "rcm2points", "DimensionError")
        g4 == Guard(FieldMismatch(a.fi, a.lat2d, 1, a.lon2d, 2),
                    "rcm2points", "DimensionError")
        d  == rcm2points_dispatch(a)
    IN  IF g1 # "pass" THEN Failed(g1)
        ELSE IF gp # "pass" THEN Failed(gp)
        ELSE IF g2 # "pass" THEN Failed(g2)
        ELSE IF g3 # "pass" THEN Failed(g3)
        ELSE IF g4 # "pass" THEN Failed(g4)
        ELSE IF d.raised # "none" THEN d
        ELSE MetaStep("rcm2points", a.meta, a.fi, d)

\* ------------------------------------------------------------ linint2_points
\* xi = fi.coords[fi.dims[-1]].values when xi is None (likewise yi with
\* dims[-2]): the shape of the coordinate of that dimension; NoneArg stands
\* for the KeyError of a DataArray that carries no such coordinate.
CoordOrArg(arg, fi, axisFromRight) ==
    IF arg # NoneArg THEN arg
    ELSE IF fi.coords THEN <<fi.shape[Len(fi.shape) - axisFromRight]>>
    ELSE NoneArg

linint2_points(a) ==
    LET g0 == IF ~a.fi.xr /\ (a.xi = NoneArg \/ a.yi = NoneArg)
              THEN Raise("linint2points", "CoordinateError") ELSE "pass"
        g1 == Guard(PointsDiffer(a.xo, a.yo), "linint2points", "DimensionError")
        g2 == Guard(FewDims(a.fi), "linint2points", "DimensionError")
        xi == CoordOrArg(a.xi, a.fi, 0)
        yi == CoordOrArg(a.yi, a.fi, 1)
        d  == KernelCall("linint2points", "_linint2_points")
    IN  IF g0 # "pass" THEN Failed(g0)
        ELSE IF g1 # "pass" THEN Failed(g1)
        ELSE IF g2 # "pass" THEN Failed(g2)
        ELSE IF xi = NoneArg THEN Failed("KeyError")
        ELSE IF yi = NoneArg THEN Failed("KeyError")
        ELSE IF d.raised # "none" THEN d
        ELSE MetaStep("linint2points", a.meta, a.fi,
                      [d EXCEPT !.fo = [kernel |-> "_linint2_points", xi |-> xi, yi |-> yi]])

\* --------------------------------------------------------------- grid2triple
grid2triple(a) ==
    LET g1 == Guard(IF Len(a.z.shape) # 2 THEN "T" ELSE "F",
                    "grid2triple", "DimensionError")
        \* z = z.values for a DataArray; then isinstance(z, np.ndarray)
        isnd == a.z.xr \/ a.z.storage = "numpy"
        d  == IF isnd THEN KernelCall("grid2triple", "_grid2triple")
              ELSE Failed("TypeError")
    IN  IF g1 # "pass" THEN Failed(g1)
        ELSE IF d.raised # "none" THEN d
        ELSE MetaStep("grid2triple", a.meta, a.z, d)

\* --------------------------------------------------------------- triple2grid
\* Keyword options: [kind |-> "absent"], [kind |-> "int", val |-> n],
\* [kind |-> "bool", val |-> 0 or 1] (False / True),
\* [kind |-> "float", val |-> n] (a scalar that is no int), and
\* [kind |-> "array", val |-> n] (n > 1 elements).
Absent == [kind |-> "absent", val |-> 0]

\* isinstance(v, int): bool is a subclass of int.
IsInt(v) == v.kind \in {"int", "bool"}

\* The options block with the isinstance check of `method` only.
triple2grid_options_error_type(kw) ==
    IF kw.method.kind # "absent" /\ ~IsInt(kw.method) THEN "TypeError"
    ELSE IF IsInt(kw.method) /\ kw.method.val # 0
            /\ kw.distmx.kind = "array" THEN "ValueError"
    ELSE IF kw.domain.kind = "array" THEN "ValueError"
    ELSE "pass"

\* The `# Parsing Options` block: the error it raises, else "pass".
triple2grid_options_error(kw) ==
    IF kw.method.kind # "absent" /\ ~IsInt(kw.method) THEN "TypeError"
    ELSE IF IsInt(kw.method) /\ kw.method.val # 0 /\ kw.method.val # 1
         THEN "TypeError"
    ELSE IF IsInt(kw.method) /\ kw.method.val = 1
            /\ kw.distmx.kind = "array" THEN "ValueError"
    ELSE IF kw.domain.kind = "array" THEN "ValueError"
    ELSE "pass"

\* Variant that forwards every keyword it was given.
triple2grid_options_all(kw) ==
    LET m == IF IsInt(kw.method) THEN {<<"method", kw.method.val>>} ELSE {}
        x == IF kw.distmx.kind # "absent"
             THEN {<<"distmx", kw.distmx.val>>} ELSE {}
        d == IF kw.domain.kind # "absent" THEN {<<"domain", kw.domain.val>>} ELSE {}
        e == IF kw.extra THEN {<<"extra", 1>>} ELSE {}
    IN  m \cup x \cup d \cup e

\* The options dictionary handed to the kernel (keys present and their values).
\* kw.extra stands for a keyword the wrapper does not know: nothing reads it.
triple2grid_options(kw) ==
    LET m == IF IsInt(kw.method) THEN {<<"method", kw.method.val>>} ELSE {}
        x == IF IsInt(kw.method) /\ kw.method.val # 0
                /\ kw.distmx.kind # "absent"
             THEN {<<"distmx", kw.distmx.val>>} ELSE {}
        d == IF kw.domain.kind # "absent" THEN {<<"domain", kw.domain.val>>} ELSE {}
    IN  m \cup x \cup d

triple2grid(a) ==
    LET g1 == Guard(Or2(Ne(a.x, 1, a.y, 1),
                        Ne(a.x, 1, a.data.shape, Len(a.data.shape))),
                    "triple2grid", "DimensionError")
        g2 == Guard(Or2(NdimGt1(a.x), NdimGt1(a.y)), "triple2grid", "DimensionError")
        g3 == Guard(Or2(NdimGt1(a.xgrid), NdimGt1(a.ygrid)),
                    "triple2grid", "DimensionError")
        g4 == triple2grid_options_error(a.kw)
        isnd == a.data.xr \/ a.data.storage = "numpy"
        d  == IF isnd THEN KernelCall("triple2grid", "_triple2grid")
              ELSE Failed("TypeError")
    IN  IF g1 # "pass" THEN Failed(g1)
        ELSE IF g2 # "pass" THEN Failed(g2)
        ELSE IF g3 # "pass" THEN Failed(g3)
        ELSE IF g4 # "pass" THEN Failed(g4)
        ELSE IF d.raised # "none" THEN d
        ELSE MetaStep("triple2grid", a.kw.meta, a.data,
                      [d EXCEPT !.fo = [kernel |-> "_triple2grid",
                                        options |-> triple2grid_options(a.kw)]])

\* ------------------------------------------------------------- moc_globe_atl
\* if a_wvel.dtype == np.float64: msg = np.float64(msg) else: msg = np.float32(msg)
MsgDType(a) == IF a.a_wvel.dtype = "float64" THEN "float64" ELSE "float32"

\* The DataArray arguments are replaced by their .values; a_wvel that is
\* neither an array nor a DataArray has no dtype attribute.
moc_globe_atl(a) ==
    LET isnd == a.a_wvel.xr \/ a.a_wvel.storage = "numpy"
        d  == KernelCall("moc_globe_alt", "_moc_globe_atl")
    IN  IF ~isnd THEN Failed("AttributeError")
        ELSE IF d.raised # "none" THEN d
        ELSE MetaStep("moc_globe_alt", a.meta, a.a_wvel,
                      [d EXCEPT !.fo = [kernel |-> "_moc_globe_atl",
                                        msg |-> MsgDType(a)]])

\* -------------------------------------------------------- eofunc, eofunc_ts
\* An attribute dictionary is a set of <<key, value>> pairs, one per key.
\* attrs[k] = v
SetAttr(attrs, k, v) == {p \in attrs : p[1] # k} \cup {<<k, v>>}

\* The keys the compiled kernel may return in response[1].
ResponseKeys == {"eval", "matrix"}

\* for k, v in response[1].items(): attrs[k.decode('utf-8')] = ...
RECURSIVE SetResponse(_, _)
SetResponse(attrs, resp) ==
    IF resp = {} THEN attrs
    ELSE LET k == CHOOSE x \in resp : TRUE
         IN  SetResponse(SetAttr(attrs, k, IF k = "matrix" THEN "decoded" ELSE "value"),
                         resp \ {k})

\* The dictionary the result's attributes are written into, after the writes
\* of `_FillValue`, `missing_value` and the kernel's response.
EofAttrs(attrs, resp) ==
    SetResponse(SetAttr(SetAttr(attrs, "_FillValue", "nan"), "missing_value", "nan"),
                resp)

\* attrs = data.attrs if isinstance(data, xr.DataArray) and bool(meta) else {}
KeepsMeta(a) == a.data.kind = "xr" /\ a.kw.meta

\* The `jopt` block: the error it raises, else "pass".
eofunc_jopt_error(kw) ==
    IF kw.jopt = "nonstr" THEN "TypeError"
    ELSE IF kw.jopt \notin {"absent", "covariance", "correlation"} THEN "ValueError"
    ELSE "pass"

\* The `pcrit` block of eofunc.
eofunc_pcrit_error(kw) ==
    IF kw.pcrit.kind = "absent" THEN "pass"
    ELSE IF kw.pcrit.kind = "array" THEN "ValueError"
    ELSE IF kw.pcrit.val >= 0 /\ kw.pcrit.val <= 100 THEN "pass"
    ELSE "ValueError"

\* The options dictionary of eofunc / eofunc_ts.
eofunc_options(kw, withPcrit) ==
    (IF kw.jopt \in {"covariance", "correlation"}
     THEN {<<"jopt", IF kw.jopt = "correlation" THEN 1 ELSE 0>>} ELSE {})
    \cup (IF withPcrit /\ kw.pcrit.kind = "float" THEN {<<"pcrit", kw.pcrit.val>>} ELSE {})

\* (time_dim >= np_data.ndim) or (time_dim < -np_data.ndim)
TimeDimOutOfBound(ndim, time_dim) == time_dim >= ndim \/ time_dim < -ndim

\* time_dim handed on as it was passed.
NormalTimeDim_raw(ndim, time_dim) == time_dim

\* if time_dim < 0: time_dim = np_data.ndim + time_dim
NormalTimeDim(ndim, time_dim) == IF time_dim < 0 THEN ndim + time_dim ELSE time_dim

\* The kernel call and everything after it; last / axis are the names of the
\* last-axis kernel and of the kernel that takes the axis.  data_attrs is the
\* attribute dictionary of the caller's data object when the call ends.
eofunc_tail(a, resp, last, axis) ==
    LET ndim  == a.data.ndim
        td    == NormalTimeDim(ndim, a.kw.time_dim)
        attrs == EofAttrs(IF KeepsMeta(a) THEN a.data.attrs ELSE {}, resp)
    IN  [raised |-> "none", kernelCalls |-> 1, lazy |-> NoLazy, out |-> <<>>,
         fo |-> [kernel |-> IF td = ndim - 1 THEN last ELSE axis,
                 time_dim |-> td,
                 options |-> eofunc_options(a.kw, last = "_eofunc"),
                 attrs |-> attrs],
         data_attrs |-> IF KeepsMeta(a) THEN attrs ELSE a.data.attrs]

\* A call of eofunc / eofunc_ts that ended in exception e before the kernel.
EofFailed(a, e) ==
    [raised |-> e, kernelCalls |-> 0, lazy |-> NoLazy, fo |-> NoResult, out |-> <<>>,
     data_attrs |-> a.data.attrs]

eofunc(a, resp) ==
    LET g1 == eofunc_jopt_error(a.kw)
        g2 == eofunc_pcrit_error(a.kw)
    IN  IF g1 # "pass" THEN EofFailed(a, g1)
        ELSE IF g2 # "pass" THEN EofFailed(a, g2)
        ELSE IF TimeDimOutOfBound(a.data.ndim, a.kw.time_dim)
             THEN EofFailed(a, "ValueError")
        ELSE IF a.neval <= 0 THEN EofFailed(a, "ValueError")
        ELSE eofunc_tail(a, resp, "_eofunc", "_eofunc_n")

eofunc_ts(a, resp) ==
    LET g1 == eofunc_jopt_error(a.kw)
    IN  IF g1 # "pass" THEN EofFailed(a, g1)
        ELSE IF TimeDimOutOfBound(a.data.ndim, a.kw.time_dim)
             THEN EofFailed(a, "ValueError")
        ELSE eofunc_tail(a, resp, "_eofunc_ts", "_eofunc_ts_n")

\* ------------------------------------------------------------------- inputs
\* Shapes the callers pass.  Two families of calls are drawn: shape inputs
\* (arbitrary small shapes, numpy storage) and grid inputs (well-formed grids
\* with every storage, chunk layout and dtype).
Dims == 1..MaxDim
VecShapes == {<<n>> : n \in Dims}
MatShapes == {<<m, n>> : m, n \in Dims}
\* Coordinate arrays meant to be 2-D: 1-D, 2-D, and 3-D with a trailing axis.
CurvShapes == VecShapes \cup MatShapes \cup {Append(s, 2) : s \in MatShapes}
\* Fields without leading axes: 0-D, 1-D, 2-D.
FieldShapes == {<<>>} \cup VecShapes \cup MatShapes
\* Arguments meant to be 1-D: 0-D, 1-D, 2-D.
LooseShapes == {<<>>} \cup VecShapes \cup {<<n, 2>> : n \in Dims}

GridSizes == 2..MaxGrid
Leads == {<<>>} \cup {<<n>> : n \in 1..MaxBatch}
DTypes == {"float32", "float64", "int32"}
StorageKinds == {"numpy", "dask", "other"}

Array(shape, storage, chunks, dtype, isxr, coords) ==
    [shape |-> shape, storage |-> storage, chunks |-> chunks, dtype |-> dtype,
     xr |-> isxr, coords |-> coords]

NumpyField(shape) == Array(shape, "numpy", <<>>, "float64", FALSE, FALSE)

\* One chunk per axis.
Unchunked(shape) == [i \in 1..Len(shape) |-> <<shape[i]>>]

\* Every storage and chunk layout of a field of the given shape.
Stored(shape) ==
    {[storage |-> "numpy", chunks |-> <<>>], [storage |-> "other", chunks |-> <<>>]}
    \cup {[storage |-> "dask", chunks |-> c] : c \in ChunkLayouts(shape)}

\* Well-formed fields on an nlat x nlon grid: every leading axis, storage,
\* chunk layout and dtype; and every storage with the DataArray wrapping.
GridFields(nlat, nlon) ==
    UNION {{Array(l \o <<nlat, nlon>>, st.storage, st.chunks, dt, FALSE, FALSE) :
                st \in Stored(l \o <<nlat, nlon>>), dt \in DTypes} : l \in Leads}

WrappedFields(shape) ==
    {Array(shape, k, IF k = "dask" THEN Unchunked(shape) ELSE <<>>, "float64", x, x) :
        k \in StorageKinds, x \in BOOLEAN}

\* Coordinate values.  The wrappers read only the shapes of their arguments;
\* the values of the rectilinear axes travel with the call as axisValues.
Ramp(n) == [i \in 1..n |-> i]
Descent(n) == [i \in 1..n |-> n + 1 - i]
Flat(n) == [i \in 1..n |-> 1]
\* The values of a coordinate array of the given shape when the caller passes
\* an increasing axis (no vector of values for a 0-D, 2-D or omitted array).
Values(shape) == IF Len(shape) = 1 /\ shape[1] >= 1 THEN Ramp(shape[1]) ELSE <<>>
\* Every vector of n values, and the pairs of axes drawn from them: one axis
\* arbitrary, the other increasing, decreasing or constant.
AxisVectors(n) == [1..n -> 1..n]
SteadyVectors(n) == {Ramp(n), Descent(n), Flat(n)}
AxisPairs(n) ==
    {<<v, w>> : v \in AxisVectors(n), w \in SteadyVectors(n)}
    \cup {<<w, v>> : v \in AxisVectors(n), w \in SteadyVectors(n)}

MethodArgs == {Absent} \cup {[kind |-> "int", val |-> v] : v \in -1..2}
                       \cup {[kind |-> "bool", val |-> v] : v \in 0..1}
                       \cup {[kind |-> "float", val |-> 1]}
ScalarArgs == {Absent} \cup {[kind |-> "float", val |-> v] : v \in -1..1}
                       \cup {[kind |-> "array", val |-> 2]}
\* Inputs of eofunc / eofunc_ts: data of 1..MaxDim dimensions held in a numpy
\* array, a list, or a DataArray with some attributes.
EofData ==
    {[ndim |-> n, kind |-> k, attrs |-> {}] : n \in 1..MaxDim, k \in {"numpy", "list", "xr"}}
    \cup {[ndim |-> n, kind |-> "xr", attrs |-> at] : n \in 1..MaxDim,
            at \in {{<<"units", "K">>}, {<<"_FillValue", "-999">>}}}
JoptArgs == {"absent", "covariance", "correlation", "other", "nonstr"}
PcritArgs == {Absent, [kind |-> "float", val |-> 50], [kind |-> "float", val |-> 101],
              [kind |-> "array", val |-> 2]}
\* time_dim as passed; an omitted time_dim is the call with -1.
TimeDims == (0 - MaxDim - 1)..MaxDim
NoOptions == [method |-> Absent, distmx |-> Absent, domain |-> Absent, meta |-> FALSE,
              extra |-> FALSE]

\* ------------------------------------------------------------------ actions
\* ------------------------------------------------------- numbers of a call
\* The calls above are drawn with the shapes of their arrays only.  The calls
\* below also carry numbers: the coordinate and field values the caller
\* passed (num.values), what the compiled kernel returned for them
\* (num.result, <<>> if the kernel was never invoked), and, for a call that
\* was given the result of an earlier call, the values of that earlier call
\* (num.before).
NoValues == [kind |-> "none"]
NoNumbers == [values |-> NoValues, result |-> <<>>, before |-> NoValues]

\* The msg argument: the value that marks a missing entry of the field.
Missing == -1
\* A field entry: the missing value or a datum in 0..MaxVal.
CellValues == {Missing} \cup 0..MaxVal
\* The coordinates of a two-point source axis, and the point midway.
SrcAxis == <<0, 2>>
\* The coordinates of a three-point axis.
LongAxis == <<0, 2, 4>>
Mid == 1

\* Kernel results are exact rationals <<numerator, denominator>>, denominator
\* positive; a datum d is <<d, 1>>.
RatEq(p, q) == p[1] * q[2] = q[1] * p[2]
RatLe(p, q) == p[1] * q[2] <= q[1] * p[2]
IsMissing(p, msg) == RatEq(p, <<msg, 1>>)

\* Rectilinear bracket search: the lowest cell i of the increasing axis with
\* axis[i] <= t <= axis[i+1], 0 when t is out of range.
Bracket(axis, t) ==
    LET S == {i \in 1..(Len(axis) - 1) : axis[i] <= t /\ t <= axis[i + 1]}
    IN  IF S = {} THEN 0 ELSE CHOOSE i \in S : \A j \in S : i <= j

\* The cyclic flag: the x axis wraps, the first coordinate plus one period
\* follows the last one and carries the first column of the field.  The
\* period is taken as the span of the axis plus one spacing.
Period(xi) == (xi[Len(xi)] - xi[1]) + (xi[2] - xi[1])
WrapAxis(xi) == Append(xi, xi[1] + Period(xi))
WrapField(fi) == [r \in 1..Len(fi) |-> Append(fi[r], fi[r][1])]

\* The bilinear value at (x, y) from the four corners of the bracketing cell:
\* missing out of range, missing if any corner is missing.
Bilinear(xi, yi, fi, x, y, msg) ==
    LET i == Bracket(xi, x)
        j == Bracket(yi, y)
    IN  IF i = 0 \/ j = 0 THEN <<msg, 1>>
        ELSE LET f11 == fi[j][i]
                 f12 == fi[j][i + 1]
                 f21 == fi[j + 1][i]
                 f22 == fi[j + 1][i + 1]
                 x1 == xi[i]
                 x2 == xi[i + 1]
                 y1 == yi[j]
                 y2 == yi[j + 1]
             IN  IF msg \in {f11, f12, f21, f22} THEN <<msg, 1>>
                 ELSE <<f11 * (x2 - x) * (y2 - y) + f12 * (x - x1) * (y2 - y)
                          + f21 * (x2 - x) * (y - y1) + f22 * (x - x1) * (y - y1),
                        (x2 - x1) * (y2 - y1)>>

\* The kernel _ncomp._linint2_points on its parameters p: one value per
\* target point (xo[k], yo[k]).
ncomp_linint2_points(p) ==
    LET xs == IF p.icycx THEN WrapAxis(p.xi) ELSE p.xi
        fs == IF p.icycx THEN WrapField(p.fi) ELSE p.fi
    IN  [k \in 1..Len(p.xo) |-> Bilinear(xs, p.yi, fs, p.xo[k], p.yo[k], p.msg)]

\* A value that is no entry of any field drawn.
NoMsg == Missing - 1

\* The kernel call of linint2_points with msg left out.
linint2_points_call_nomsg(v) ==
    [xi |-> v.xi, yi |-> v.yi, fi |-> v.fi, xo |-> v.xo, yo |-> v.yo,
     icycx |-> v.icycx, msg |-> NoMsg]

\* _ncomp._linint2_points(xi, yi, fi_data, xo, yo, icycx, msg): the caller's
\* values as the wrapper hands them to the kernel.
linint2_points_call(v) ==
    [xi |-> v.xi, yi |-> v.yi, fi |-> v.fi, xo |-> v.xo, yo |-> v.yo,
     icycx |-> v.icycx, msg |-> v.msg]

\* ---- inverse distance weighting
RECURSIVE SeqProd(_)
SeqProd(s) == IF s = <<>> THEN 1 ELSE Head(s) * SeqProd(Tail(s))

\* Squared planar distance.
Dist2(x1, y1, x2, y2) == (x1 - x2) * (x1 - x2) + (y1 - y2) * (y1 - y2)

\* The inverse distance value from the neighbours pts, each <<squared
\* distance, value>>: neighbours carrying msg are left out of the sum and of
\* the denominator; none left gives msg; a neighbour at distance zero gives
\* its own value; else the weights are 1 / distance^2.
IdwValue(pts, msg) ==
    LET u  == SelectSeq(pts, LAMBDA p : p[2] # msg)
        Z  == {k \in 1..Len(u) : u[k][1] = 0}
        D  == SeqProd([k \in 1..Len(u) |-> u[k][1]])
        ws == [k \in 1..Len(u) |-> D \div u[k][1]]
    IN  IF u = <<>> THEN <<msg, 1>>
        ELSE IF Z # {} THEN <<u[CHOOSE k \in Z : \A l \in Z : k <= l][2], 1>>
        ELSE <<SeqSum([k \in 1..Len(u) |-> u[k][2] * ws[k]]), SeqSum(ws)>>

\* Rectilinear source: the four corners of the cell bracketing (x, y), as
\* <<squared distance, value>>; <<>> when (x, y) is out of range of an axis.
CellCorners(lat1d, lon1d, fi, x, y) ==
    LET i == Bracket(lon1d, x)
        j == Bracket(lat1d, y)
    IN  IF i = 0 \/ j = 0 THEN <<>>
        ELSE [c \in 1..4 |->
                LET di == (c - 1) % 2
                    dj == (c - 1) \div 2
                IN  <<Dist2(x, y, lon1d[i + di], lat1d[j + dj]), fi[j + dj][i + di]>>]

\* Curvilinear source: the mesh points nearest to (x, y), as <<squared
\* distance, value>>; <<>> when (x, y) is outside the envelope of the mesh
\* coordinates.  The meshes drawn have four points on the corners of a
\* rectangle: all four are the nearest ones and the envelope is the rectangle.
MeshNeighbours(lat2d, lon2d, fi, x, y) ==
    LET P == {<<r, c>> : r \in 1..Len(lat2d), c \in 1..Len(lat2d[1])}
        inside == /\ \E p \in P : lon2d[p[1]][p[2]] <= x
                  /\ \E p \in P : lon2d[p[1]][p[2]] >= x
                  /\ \E p \in P : lat2d[p[1]][p[2]] <= y
                  /\ \E p \in P : lat2d[p[1]][p[2]] >= y
        nx == Len(lat2d[1])
    IN  IF ~inside THEN <<>>
        ELSE [k \in 1..(Len(lat2d) * nx) |->
                LET r == ((k - 1) \div nx) + 1
                    c == ((k - 1) % nx) + 1
                IN  <<Dist2(x, y, lon2d[r][c], lat2d[r][c]), fi[r][c]>>]

\* The kernel _ncomp._rgrid2rcm: one value per point of the target mesh.
ncomp_rgrid2rcm(p) ==
    [r \in 1..Len(p.lat2d) |-> [c \in 1..Len(p.lat2d[r]) |->
        IdwValue(CellCorners(p.lat1d, p.lon1d, p.fi, p.lon2d[r][c], p.lat2d[r][c]),
                 p.msg)]]

\* The kernel _ncomp._rcm2rgrid: one value per point of the target grid.
ncomp_rcm2rgrid(p) ==
    [r \in 1..Len(p.lat1d) |-> [c \in 1..Len(p.lon1d) |->
        IdwValue(MeshNeighbours(p.lat2d, p.lon2d, p.fi, p.lon1d[c], p.lat1d[r]),
                 p.msg)]]

\* The kernel _ncomp._rcm2points with opt 0 or 1 (inverse distance): one
\* value per target point.
ncomp_rcm2points(p) ==
    [k \in 1..Len(p.lat1dPoints) |->
        IdwValue(MeshNeighbours(p.lat2d, p.lon2d, p.fi,
                                p.lon1dPoints[k], p.lat1dPoints[k]), p.msg)]

\* _ncomp._rgrid2rcm(lat1d, lon1d, fi_data, lat2d, lon2d, msg)
rgrid2rcm_call(v) ==
    [lat1d |-> v.lat1d, lon1d |-> v.lon1d, fi |-> v.fi,
     lat2d |-> v.lat2d, lon2d |-> v.lon2d, msg |-> v.msg]

\* _ncomp._rcm2rgrid(lat2d, lon2d, fi_data, lat1d, lon1d, msg)
rcm2rgrid_call(v) ==
    [lat2d |-> v.lat2d, lon2d |-> v.lon2d, fi |-> v.fi,
     lat1d |-> v.lat1d, lon1d |-> v.lon1d, msg |-> v.msg]

\* _ncomp._rcm2points(lat2d, lon2d, fi_data, lat1dPoints, lon1dPoints, opt, msg)
rcm2points_call(v) ==
    [lat2d |-> v.lat2d, lon2d |-> v.lon2d, fi |-> v.fi,
     lat1dPoints |-> v.lat1dPoints, lon1dPoints |-> v.lon1dPoints,
     opt |-> v.opt, msg |-> v.msg]

\* The curvilinear mesh whose points are the nodes of the axes SrcAxis.
SrcMeshLat == <<<<SrcAxis[1], SrcAxis[1]>>, <<SrcAxis[2], SrcAxis[2]>>>>
SrcMeshLon == <<SrcAxis, SrcAxis>>

\* ---- grid <-> triples
\* The kernel _ncomp._grid2triple: the entries of z taken row by row, each as
\* the triple <<x, y, value>>, the entries equal to msg dropped.
ncomp_grid2triple(p) ==
    LET mx == Len(p.x)
        all == [k \in 1..(Len(p.y) * mx) |->
                  LET i == ((k - 1) \div mx) + 1
                      j == ((k - 1) % mx) + 1
                  IN  <<p.x[j], p.y[i], p.z[i][j]>>]
    IN  SelectSeq(all, LAMBDA t : t[3] # p.msg)

\* The kernel call of grid2triple with msg left out.
grid2triple_call_nomsg(v) == [x |-> v.x, y |-> v.y, z |-> v.z, msg |-> NoMsg]

\* _ncomp._grid2triple(x, y, z, msg)
grid2triple_call(v) == [x |-> v.x, y |-> v.y, z |-> v.z, msg |-> v.msg]

\* The index of the coordinate of axis nearest to t (the lowest of two
\* equally near ones).
Nearest(axis, t) ==
    LET dist(i) == IF axis[i] >= t THEN axis[i] - t ELSE t - axis[i]
    IN  CHOOSE i \in 1..Len(axis) :
            \A j \in 1..Len(axis) : dist(i) < dist(j) \/ (dist(i) = dist(j) /\ i <= j)

\* The kernel _ncomp._triple2grid with the default options (planar distance):
\* every sample that is not missing goes to the grid point nearest to it; a
\* grid point takes the closest of its samples (the last of equally close
\* ones) and is missing if it has none.  The samples drawn all lie within
\* the grid, so the domain option has nothing to exclude.
ncomp_triple2grid(p) ==
    [i \in 1..Len(p.ygrid) |-> [j \in 1..Len(p.xgrid) |->
        LET K == {k \in 1..Len(p.x) :
                    /\ p.data[k] # p.msg
                    /\ Nearest(p.xgrid, p.x[k]) = j
                    /\ Nearest(p.ygrid, p.y[k]) = i}
            d(k) == Dist2(p.x[k], p.y[k], p.xgrid[j], p.ygrid[i])
        IN  IF K = {} THEN p.msg
            ELSE p.data[CHOOSE k \in K :
                           \A l \in K : d(k) < d(l) \/ (d(k) = d(l) /\ k >= l)]]]

\* The kernel call of triple2grid with x and y exchanged.
triple2grid_call_yx(v, options) ==
    [x |-> v.y, y |-> v.x, data |-> v.data, xgrid |-> v.xgrid, ygrid |-> v.ygrid,
     options |-> options, msg |-> v.msg]

\* _ncomp._triple2grid(x, y, data, xgrid, ygrid, options, msg)
triple2grid_call(v, options) ==
    [x |-> v.x, y |-> v.y, data |-> v.data, xgrid |-> v.xgrid, ygrid |-> v.ygrid,
     options |-> options, msg |-> v.msg]

Init ==
    /\ pc = "idle"
    /\ fn = "none"
    /\ args = [meta |-> FALSE]
    /\ raised = "none"
    /\ kernelCalls = 0
    /\ lazy = NoLazy
    /\ fo = NoResult
    /\ out = <<>>
    /\ computed = {}
    /\ inputs = [meta |-> FALSE]
    /\ num = NoNumbers

\* A call of function f with arguments a whose body evaluates to r and leaves
\* the caller's argument objects as `after`.
CallFull(f, a, r, after, n) ==
    /\ pc' = IF r.raised # "none" THEN "raised" ELSE "returned"
    /\ fn' = f
    /\ args' = a
    /\ raised' = r.raised
    /\ kernelCalls' = r.kernelCalls
    /\ lazy' = r.lazy
    /\ fo' = r.fo
    /\ out' = r.out
    /\ computed' = {}
    /\ inputs' = after
    /\ num' = n

\* A call drawn with shapes only.
CallEnds(f, a, r, after) == CallFull(f, a, r, after, NoNumbers)

\* The numbers of a call that passed the values v: result is what the
\* compiled kernel returns for them, kept only if the wrapper reached the
\* kernel.
Numbers(v, r, result) ==
    [values |-> v, result |-> IF r.kernelCalls > 0 THEN result ELSE <<>>,
     before |-> NoValues]

\* A call of wrapper f with arguments a whose body evaluates to r.  The
\* wrappers rebind their parameter names (x = x.values) and read their
\* arguments; none of them writes into an argument object.
Call(f, a, r) == CallEnds(f, a, r, a)

\* rgrid2rcm(lat1d, lon1d, fi, lat2d, lon2d, msg, meta) on the shape inputs,
\* the grid inputs and the wrapped inputs.
Call_rgrid2rcm ==
    /\ pc = "idle"
    /\ \/ \E v1 \in VecShapes, v2 \in VecShapes, s \in FieldShapes,
            c1 \in CurvShapes, c2 \in CurvShapes :
            LET a == [lat1d |-> v1, lon1d |-> v2, fi |-> NumpyField(s),
                      lat2d |-> c1, lon2d |-> c2, meta |-> FALSE,
                      axisValues |-> <<Values(v1), Values(v2)>>]
            IN  Call("rgrid2rcm", a, rgrid2rcm(a))
       \/ \E nlat \in GridSizes, nlon \in GridSizes, ny \in GridSizes, nx \in GridSizes :
            \E f \in GridFields(nlat, nlon) :
                LET a == [lat1d |-> <<nlat>>, lon1d |-> <<nlon>>, fi |-> f,
                          lat2d |-> <<ny, nx>>, lon2d |-> <<ny, nx>>, meta |-> FALSE,
                          axisValues |-> <<Ramp(nlat), Ramp(nlon)>>]
                IN  Call("rgrid2rcm", a, rgrid2rcm(a))
       \/ \E n \in GridSizes, m \in BOOLEAN :
            \E f \in WrappedFields(<<n, n>>) :
                LET a == [lat1d |-> <<n>>, lon1d |-> <<n>>, fi |-> f,
                          lat2d |-> <<n, n>>, lon2d |-> <<n, n>>, meta |-> m,
                          axisValues |-> <<Ramp(n), Ramp(n)>>]
                IN  Call("rgrid2rcm", a, rgrid2rcm(a))
       \/ \E n \in GridSizes : \E vw \in AxisPairs(n) :
            LET a == [lat1d |-> <<n>>, lon1d |-> <<n>>, fi |-> NumpyField(<<n, n>>),
                      lat2d |-> <<n, n>>, lon2d |-> <<n, n>>, meta |-> FALSE,
                      axisValues |-> vw]
            IN  Call("rgrid2rcm", a, rgrid2rcm(a))
       \* a 2 x 2 field on the axes SrcAxis, interpolated to a 2 x 2 mesh of
       \* unit spacing that starts at (x, y), its second row shifted by s
       \/ \E c1 \in CellValues, c2 \in CellValues, c3 \in CellValues,
            c4 \in CellValues, x \in -1..2, y \in -1..2, s \in 0..1 :
            LET a == [lat1d |-> <<2>>, lon1d |-> <<2>>, fi |-> NumpyField(<<2, 2>>),
                      lat2d |-> <<2, 2>>, lon2d |-> <<2, 2>>, meta |-> FALSE,
                      axisValues |-> <<SrcAxis, SrcAxis>>]
                v == [kind |-> "rgrid2rcm", lat1d |-> SrcAxis, lon1d |-> SrcAxis,
                      fi |-> <<<<c1, c2>>, <<c3, c4>>>>,
                      lat2d |-> <<<<y, y>>, <<y + 1, y + 1>>>>,
                      lon2d |-> <<<<x, x + 1>>, <<x + s, x + 1 + s>>>>,
                      msg |-> Missing]
                r == rgrid2rcm(a)
            IN  CallFull("rgrid2rcm", a, r, a,
                         Numbers(v, r, ncomp_rgrid2rcm(rgrid2rcm_call(v))))

\* rcm2rgrid(lat2d, lon2d, fi, lat1d, lon1d, msg, meta), likewise.
Call_rcm2rgrid ==
    /\ pc = "idle"
    /\ \/ \E v1 \in VecShapes, v2 \in VecShapes, s \in FieldShapes,
            c1 \in CurvShapes, c2 \in CurvShapes :
            LET a == [lat2d |-> c1, lon2d |-> c2, fi |-> NumpyField(s),
                      lat1d |-> v1, lon1d |-> v2, meta |-> FALSE,
                      axisValues |-> <<Values(v1), Values(v2)>>]
            IN  Call("rcm2rgrid", a, rcm2rgrid(a))
       \/ \E ny \in GridSizes, nx \in GridSizes, nlat \in GridSizes, nlon \in GridSizes :
            \E f \in GridFields(ny, nx) :
                LET a == [lat2d |-> <<ny, nx>>, lon2d |-> <<ny, nx>>, fi |-> f,
                          lat1d |-> <<nlat>>, lon1d |-> <<nlon>>, meta |-> FALSE,
                          axisValues |-> <<Ramp(nlat), Ramp(nlon)>>]
                IN  Call("rcm2rgrid", a, rcm2rgrid(a))
       \/ \E n \in GridSizes, m \in BOOLEAN :
            \E f \in WrappedFields(<<n, n>>) :
                LET a == [lat2d |-> <<n, n>>, lon2d |-> <<n, n>>, fi |-> f,
                          lat1d |-> <<n>>, lon1d |-> <<n>>, meta |-> m,
                          axisValues |-> <<Ramp(n), Ramp(n)>>]
                IN  Call("rcm2rgrid", a, rcm2rgrid(a))
       \/ \E n \in GridSizes : \E vw \in AxisPairs(n) :
            LET a == [lat2d |-> <<n, n>>, lon2d |-> <<n, n>>, fi |-> NumpyField(<<n, n>>),
                      lat1d |-> <<n>>, lon1d |-> <<n>>, meta |-> FALSE,
                      axisValues |-> vw]
            IN  Call("rcm2rgrid", a, rcm2rgrid(a))
       \* a 2 x 2 field on the mesh SrcMesh, interpolated to the grid of the
       \* axes (t, t + 1)
       \/ \E c1 \in CellValues, c2 \in CellValues, c3 \in CellValues,
            c4 \in CellValues, t \in -1..2 :
            LET a == [lat2d |-> <<2, 2>>, lon2d |-> <<2, 2>>, fi |-> NumpyField(<<2, 2>>),
                      lat1d |-> <<2>>, lon1d |-> <<2>>, meta |-> FALSE,
                      axisValues |-> <<<<t, t + 1>>, <<t, t + 1>>>>]
                v == [kind |-> "rcm2rgrid", lat2d |-> SrcMeshLat, lon2d |-> SrcMeshLon,
                      fi |-> <<<<c1, c2>>, <<c3, c4>>>>,
                      lat1d |-> <<t, t + 1>>, lon1d |-> <<t, t + 1>>,
                      msg |-> Missing]
                r == rcm2rgrid(a)
            IN  CallFull("rcm2rgrid", a, r, a,
                         Numbers(v, r, ncomp_rcm2rgrid(rcm2rgrid_call(v))))

\* rcm2points(lat2d, lon2d, fi, lat1dPoints, lon1dPoints, opt, msg, meta).
Call_rcm2points ==
    /\ pc = "idle"
    /\ \/ \E v1 \in VecShapes, v2 \in VecShapes, s \in FieldShapes,
            c1 \in CurvShapes, c2 \in CurvShapes :
            LET a == [lat2d |-> c1, lon2d |-> c2, fi |-> NumpyField(s),
                      lat1dPoints |-> v1, lon1dPoints |-> v2, meta |-> FALSE]
            IN  Call("rcm2points", a, rcm2points(a))
       \/ \E n \in GridSizes, m \in BOOLEAN :
            \E f \in WrappedFields(<<n, n>>) :
                LET a == [lat2d |-> <<n, n>>, lon2d |-> <<n, n>>, fi |-> f,
                          lat1dPoints |-> <<n>>, lon1dPoints |-> <<n>>, meta |-> m]
                IN  Call("rcm2points", a, rcm2points(a))
       \* a 2 x 2 field on the mesh SrcMesh, interpolated to the point (x, y)
       \* and to the middle of the mesh, opt = 0 or 1 (inverse distance)
       \/ \E c1 \in CellValues, c2 \in CellValues, c3 \in CellValues,
            c4 \in CellValues, x \in -1..3, y \in -1..3, o \in 0..1 :
            LET a == [lat2d |-> <<2, 2>>, lon2d |-> <<2, 2>>, fi |-> NumpyField(<<2, 2>>),
                      lat1dPoints |-> <<2>>, lon1dPoints |-> <<2>>, meta |-> FALSE]
                v == [kind |-> "rcm2points", lat2d |-> SrcMeshLat, lon2d |-> SrcMeshLon,
                      fi |-> <<<<c1, c2>>, <<c3, c4>>>>,
                      lat1dPoints |-> <<y, Mid>>, lon1dPoints |-> <<x, Mid>>,
                      opt |-> o, msg |-> Missing]
                r == rcm2points(a)
            IN  CallFull("rcm2points", a, r, a,
                         Numbers(v, r, ncomp_rcm2points(rcm2points_call(v))))

\* linint2_points(fi, xo, yo, icycx, msg, meta, xi, yi); fi is a plain array,
\* a DataArray without coordinates, or a DataArray with them.
Call_linint2_points ==
    /\ pc = "idle"
    /\ \/ \E s \in FieldShapes,
            w \in {<<FALSE, FALSE>>, <<TRUE, FALSE>>, <<TRUE, TRUE>>},
            p1 \in VecShapes, p2 \in VecShapes,
            x \in VecShapes \cup {NoneArg}, y \in VecShapes \cup {NoneArg},
            m \in BOOLEAN :
            LET a == [fi |-> Array(s, "numpy", <<>>, "float64", w[1], w[2]),
                      xo |-> p1, yo |-> p2, xi |-> x, yi |-> y, meta |-> m,
                      axisValues |-> <<Values(x), Values(y)>>]
            IN  Call("linint2_points", a, linint2_points(a))
       \/ \E n \in GridSizes : \E vw \in AxisPairs(n) :
            LET a == [fi |-> NumpyField(<<n, n>>), xo |-> <<n>>, yo |-> <<n>>,
                      xi |-> <<n>>, yi |-> <<n>>, meta |-> FALSE,
                      axisValues |-> vw]
            IN  Call("linint2_points", a, linint2_points(a))
       \* a 2 x 2 field on the axes SrcAxis, interpolated to the point (x, y)
       \* and to the middle of the cell
       \/ \E c1 \in CellValues, c2 \in CellValues, c3 \in CellValues,
            c4 \in CellValues, x \in -1..5, y \in -1..3, cyc \in BOOLEAN :
            LET a == [fi |-> NumpyField(<<2, 2>>), xo |-> <<2>>, yo |-> <<2>>,
                      xi |-> <<2>>, yi |-> <<2>>, meta |-> FALSE,
                      axisValues |-> <<SrcAxis, SrcAxis>>]
                v == [kind |-> "linint2_points", xi |-> SrcAxis, yi |-> SrcAxis,
                      fi |-> <<<<c1, c2>>, <<c3, c4>>>>,
                      xo |-> <<x, Mid>>, yo |-> <<y, Mid>>,
                      icycx |-> cyc, msg |-> Missing]
                r == linint2_points(a)
            IN  CallFull("linint2_points", a, r, a,
                         Numbers(v, r, ncomp_linint2_points(linint2_points_call(v))))

\* grid2triple(x, y, z, msg, meta).
Call_grid2triple ==
    /\ pc = "idle"
    /\ \/ \E v1 \in VecShapes, v2 \in VecShapes,
          s \in FieldShapes \cup {Append(t, 2) : t \in MatShapes},
          k \in StorageKinds, w \in BOOLEAN, m \in BOOLEAN :
          LET a == [x |-> v1, y |-> v2,
                    z |-> Array(s, k, IF k = "dask" THEN Unchunked(s) ELSE <<>>,
                                "float64", w, w),
                    meta |-> m]
          IN  Call("grid2triple", a, grid2triple(a))
       \* a 2 x 3 field on the axes y = SrcAxis, x = LongAxis
       \/ \E c1 \in CellValues, c2 \in CellValues, c3 \in CellValues,
            c4 \in CellValues, c5 \in CellValues, c6 \in CellValues :
            LET a == [x |-> <<3>>, y |-> <<2>>, z |-> NumpyField(<<2, 3>>),
                      meta |-> FALSE]
                v == [kind |-> "grid2triple", x |-> LongAxis, y |-> SrcAxis,
                      z |-> <<<<c1, c2, c3>>, <<c4, c5, c6>>>>, msg |-> Missing]
                r == grid2triple(a)
            IN  CallFull("grid2triple", a, r, a,
                         Numbers(v, r, ncomp_grid2triple(grid2triple_call(v))))

\* triple2grid(x, y, data, xgrid, ygrid, **kwargs) on the shape inputs (no
\* options) and on well-formed triples with every combination of options.
Call_triple2grid ==
    /\ pc = "idle"
    /\ \/ \E s1 \in LooseShapes, s2 \in LooseShapes, s \in FieldShapes,
            g1 \in LooseShapes, g2 \in LooseShapes :
            LET a == [x |-> s1, y |-> s2, data |-> NumpyField(s),
                      xgrid |-> g1, ygrid |-> g2, kw |-> NoOptions,
                      axisValues |-> <<Values(g1), Values(g2)>>]
            IN  Call("triple2grid", a, triple2grid(a))
       \/ \E f \in WrappedFields(<<2>>), me \in MethodArgs, dx \in ScalarArgs,
            dm \in ScalarArgs, m \in BOOLEAN, ex \in BOOLEAN :
            LET a == [x |-> <<2>>, y |-> <<2>>, data |-> f, xgrid |-> <<2>>,
                      ygrid |-> <<2>>,
                      kw |-> [method |-> me, distmx |-> dx, domain |-> dm, meta |-> m,
                              extra |-> ex],
                      axisValues |-> <<Ramp(2), Ramp(2)>>]
            IN  Call("triple2grid", a, triple2grid(a))
       \/ \E n \in GridSizes : \E vw \in AxisPairs(n) :
            LET a == [x |-> <<n>>, y |-> <<n>>, data |-> NumpyField(<<n>>),
                      xgrid |-> <<n>>, ygrid |-> <<n>>, kw |-> NoOptions,
                      axisValues |-> vw]
            IN  Call("triple2grid", a, triple2grid(a))

\* moc_globe_atl(lat_aux_grid, a_wvel, a_bolus, a_submeso, tlat, rmlak, msg,
\* meta) with every dtype of the three velocity fields.
Call_moc_globe_atl ==
    /\ pc = "idle"
    /\ \E d1 \in DTypes, d2 \in DTypes, d3 \in DTypes,
          k \in {"numpy", "other"}, w \in BOOLEAN, m \in BOOLEAN :
          LET s == <<2, 2, 2>>
              a == [a_wvel |-> Array(s, k, <<>>, d1, w, w),
                    a_bolus |-> Array(s, "numpy", <<>>, d2, FALSE, FALSE),
                    a_submeso |-> Array(s, "numpy", <<>>, d3, FALSE, FALSE),
                    meta |-> m]
          IN  Call("moc_globe_atl", a, moc_globe_atl(a))

\* The caller's argument objects after a call of eofunc / eofunc_ts with result r.
EofInputsAfter(a, r) == [a EXCEPT !.data.attrs = r.data_attrs]

\* eofunc(data, neval, **kwargs): every combination of options on 2-D numpy
\* data, and every data object, time_dim, meta and kernel response without
\* other options.
Call_eofunc ==
    /\ pc = "idle"
    /\ \/ \E n \in 0..1, j \in JoptArgs, p \in PcritArgs :
            LET a == [data |-> [ndim |-> 2, kind |-> "numpy", attrs |-> {}],
                      neval |-> n,
                      kw |-> [jopt |-> j, pcrit |-> p, time_dim |-> -1, meta |-> FALSE]]
                r == eofunc(a, {"eval"})
            IN  CallEnds("eofunc", a, r, EofInputsAfter(a, r))
       \/ \E d \in EofData, t \in TimeDims, m \in BOOLEAN, resp \in SUBSET ResponseKeys :
            LET a == [data |-> d, neval |-> 1,
                      kw |-> [jopt |-> "absent", pcrit |-> Absent,
                              time_dim |-> t, meta |-> m]]
                r == eofunc(a, resp)
            IN  CallEnds("eofunc", a, r, EofInputsAfter(a, r))

\* eofunc_ts(data, evec, **kwargs), likewise; evec is held like data.
Call_eofunc_ts ==
    /\ pc = "idle"
    /\ \/ \E j \in JoptArgs, e \in {"numpy", "list", "xr"} :
            LET a == [data |-> [ndim |-> 2, kind |-> "numpy", attrs |-> {}],
                      evec |-> [ndim |-> 2, kind |-> e, attrs |-> {}],
                      kw |-> [jopt |-> j, pcrit |-> Absent, time_dim |-> -1, meta |-> FALSE]]
                r == eofunc_ts(a, {"eval"})
            IN  CallEnds("eofunc_ts", a, r, EofInputsAfter(a, r))
       \/ \E d \in EofData, t \in TimeDims, m \in BOOLEAN, resp \in SUBSET ResponseKeys :
            LET a == [data |-> d, evec |-> [ndim |-> 2, kind |-> "xr", attrs |-> {}],
                      kw |-> [jopt |-> "absent", pcrit |-> Absent,
                              time_dim |-> t, meta |-> m]]
                r == eofunc_ts(a, resp)
            IN  CallEnds("eofunc_ts", a, r, EofInputsAfter(a, r))

\* triple2grid called on what grid2triple returned, onto the grid the field
\* came from:  t = grid2triple(x, y, z, msg);
\* triple2grid(t[0], t[1], t[2], x, y, msg=msg).
Call_triple2grid_of_triples ==
    /\ pc = "returned" /\ fn = "grid2triple"
    /\ num.values.kind = "grid2triple" /\ kernelCalls > 0
    /\ LET g == num.values
           t == num.result
           n == Len(t)
           a == [x |-> <<n>>, y |-> <<n>>, data |-> NumpyField(<<n>>),
                 xgrid |-> <<Len(g.x)>>, ygrid |-> <<Len(g.y)>>, kw |-> NoOptions,
                 axisValues |-> <<g.x, g.y>>]
           v == [kind |-> "triple2grid",
                 x |-> [k \in 1..n |-> t[k][1]], y |-> [k \in 1..n |-> t[k][2]],
                 data |-> [k \in 1..n |-> t[k][3]],
                 xgrid |-> g.x, ygrid |-> g.y, msg |-> g.msg]
           r == triple2grid(a)
       IN  CallFull("triple2grid", a, r, a,
                    [values |-> v,
                     result |-> IF r.kernelCalls > 0
                                THEN ncomp_triple2grid(
                                        triple2grid_call(v, triple2grid_options(a.kw)))
                                ELSE <<>>,
                     before |-> g])

\* The chunks of the leading axis of a chunk layout (one block if there is none).
LeadChunks(chunks) == IF Len(chunks) > 2 THEN chunks[1] ELSE <<1>>
NBlocks(chunks) == Len(LeadChunks(chunks))
\* The block index taken for the leading index (right for unit chunks only).
BlockStart_index(lead, j) == j

\* The leading indices block j covers.
BlockStart(lead, j) == SeqSum(SubSeq(lead, 1, j - 1)) + 1
BlockRange(lead, j) == BlockStart(lead, j)..(BlockStart(lead, j) + lead[j] - 1)

\* One unit of work of the lazy graph: the kernel on block j of fi_data,
\* stored as block j of the output.  Units run in any order.
ComputeBlock(j) ==
    /\ j \notin computed
    /\ LET inl  == LeadChunks(lazy.inchunks)
           outl == LeadChunks(lazy.chunks)
           res  == KernelSlices(BlockStart(inl, j), inl[j])
       IN  out' = [b \in DOMAIN out |->
                      IF b \in BlockRange(outl, j)
                      THEN res[b - BlockStart(outl, j) + 1]
                      ELSE out[b]]
    /\ computed' = computed \cup {j}
    /\ UNCHANGED <<pc, fn, args, raised, kernelCalls, lazy, fo, inputs, num>>

Compute ==
    /\ pc = "returned"
    /\ lazy.kernel # "none"
    /\ \E j \in 1..NBlocks(lazy.inchunks) : ComputeBlock(j)

Next ==
    \/ Call_rgrid2rcm
    \/ Call_rcm2rgrid
    \/ Call_rcm2points
    \/ Call_linint2_points
    \/ Call_grid2triple
    \/ Call_triple2grid
    \/ Call_triple2grid_of_triples
    \/ Call_moc_globe_atl
    \/ Call_eofunc
    \/ Call_eofunc_ts
    \/ Compute

Spec == Init /\ [][Next]_vars

\* =================================================================== claims
GridFns == {"rgrid2rcm", "rcm2rgrid"}
CurvFns == {"rgrid2rcm", "rcm2rgrid", "rcm2points"}

\* The body of wrapper f on arguments a.
Wrapper(f, a) == IF f = "rgrid2rcm" THEN rgrid2rcm(a) ELSE rcm2rgrid(a)

\* The spatial shape of the source / target grid of a grid wrapper's call.
SourceGrid(f, a) ==
    IF f = "rgrid2rcm" THEN <<a.lat1d[1], a.lon1d[1]>> ELSE SubSeq(a.lat2d, 1, 2)
TargetGrid(f, a) ==
    IF f = "rgrid2rcm" THEN SubSeq(a.lat2d, 1, 2) ELSE <<a.lat1d[1], a.lon1d[1]>>

\* The arguments of a grid wrapper's call satisfy every documented shape rule.
ShapesOk(f, a) ==
    /\ Len(a.lat1d) = 1 /\ Len(a.lon1d) = 1
    /\ Len(a.lat2d) = 2 /\ a.lon2d = a.lat2d
    /\ a.lat2d[1] >= 2 /\ a.lat2d[2] >= 2
    /\ Len(a.fi.shape) >= 2
    /\ Last2(a.fi.shape) = SourceGrid(f, a)

\* A dask field with a spatial axis in several chunks / each in one chunk.
SpatialSplit(fi) ==
    /\ fi.storage = "dask"
    /\ \E i \in {Len(fi.chunks) - 1, Len(fi.chunks)} : Len(fi.chunks[i]) > 1
SpatialWhole(fi) ==
    /\ fi.storage = "dask"
    /\ \A i \in {Len(fi.chunks) - 1, Len(fi.chunks)} : Len(fi.chunks[i]) = 1

GridCallEnded == fn \in GridFns /\ pc # "idle" /\ ShapesOk(fn, args)

\* C1: a dask-backed fi whose latitude or longitude axis is split into several
\* chunks makes rgrid2rcm / rcm2rgrid raise ChunkError, and no kernel is mapped
\* over any block.
C1_SplitRaisesChunkError ==
    (GridCallEnded /\ SpatialSplit(args.fi))
        => (raised = "ChunkError" /\ lazy.kernel = "none" /\ kernelCalls = 0)

\* C2: a dask-backed fi that passes the shape checks and keeps each spatial
\* axis in one chunk is accepted by the chunk-layout check (no ChunkError; the
\* kernel is mapped), whatever the grid size and the leading chunks.
C2_WholeAxesAccepted ==
    (GridCallEnded /\ SpatialWhole(args.fi))
        => (raised # "ChunkError" /\ lazy.kernel # "none")

\* C3: the chunk layout declared for the chunked output keeps fi's chunks on
\* the leading axes and has one chunk per spatial axis, as long as the target
\* grid, so the output shape is fi's leading shape plus the target grid's.
C3_OutputChunks ==
    (fn \in GridFns /\ lazy.kernel # "none")
        => /\ lazy.chunks = ButLast2(args.fi.chunks)
                              \o <<<<TargetGrid(fn, args)[1]>>, <<TargetGrid(fn, args)[2]>>>>
           /\ fo.shape = ButLast2(args.fi.shape) \o TargetGrid(fn, args)

\* Every block of the lazy graph has been executed.
AllComputed == lazy.kernel # "none" /\ computed = 1..NBlocks(lazy.inchunks)

\* The same call with fi held in a numpy array.
Unchunked_args(a) == [a EXCEPT !.fi.storage = "numpy", !.fi.chunks = <<>>]

\* C4: with both spatial axes whole, the chunked call gives what the unchunked
\* call gives on the same data: the same outcome, the same shape and, once all
\* blocks are computed, the same value in every slice.
C4_ChunkedEqualsUnchunked ==
    (GridCallEnded /\ SpatialWhole(args.fi))
        => LET u == Wrapper(fn, Unchunked_args(args))
           IN  /\ raised = u.raised
               /\ raised = "none" => fo.shape = u.fo.shape
               /\ AllComputed => out = u.out

\* The leading indices (2-D slices) that unit j owns, from fi's own chunks.
UnitSlices(fi, j) ==
    LET lead == IF Len(fi.chunks) > 2 THEN fi.chunks[1] ELSE <<1>>
    IN  {b \in 1..SeqSum(lead) :
            /\ SeqSum(SubSeq(lead, 1, j - 1)) < b
            /\ b <= SeqSum(SubSeq(lead, 1, j))}

\* A step that executes unit j of the lazy graph.
UnitStep(j) == j \notin computed /\ computed' = computed \cup {j}

C6_FloatResult ==
    (fn \in GridFns /\ pc = "returned")
        => fo.dtype = (IF args.fi.dtype = "float64" THEN "float64" ELSE "float32")

\* C7: in every wrapper, a call that ends in an exception has invoked no
\* kernel, mapped no kernel and produced no output.
C7_ErrorsPrecedeKernel ==
    pc = "raised" => (kernelCalls = 0 /\ lazy.kernel = "none" /\ fo.kernel = "none")

\* Witness of C7: a call that one of the wrapper's own checks stopped.
C7_Witness ==
    /\ pc = "raised" /\ raised \in {"DimensionError", "ChunkError", "TypeError"}
    /\ kernelCalls = 0 /\ fo.kernel = "none"

\* C8: lat2d and lon2d of different shapes make rcm2rgrid, rcm2points and
\* rgrid2rcm raise without invoking the kernel.
C8_GridShapesDiffer ==
    (fn \in CurvFns /\ pc # "idle" /\ args.lat2d # args.lon2d)
        => (pc = "raised" /\ kernelCalls = 0 /\ lazy.kernel = "none")

\* A coordinate array with fewer than 2 points along one of its two spatial axes.
TooFew(s) == \E i \in 1..2 : i <= Len(s) /\ s[i] < 2

\* C9: a curvilinear grid with fewer than 2 points along either spatial axis
\* makes rcm2rgrid, rcm2points and rgrid2rcm raise without invoking the kernel.
C9_SmallCurvilinearGrid ==
    (fn \in CurvFns /\ pc # "idle" /\ (TooFew(args.lat2d) \/ TooFew(args.lon2d)))
        => (pc = "raised" /\ kernelCalls = 0 /\ lazy.kernel = "none")

\* Witness of C9: equal 2-D grids, one point wide, rejected by the size check.
C9_Witness ==
    /\ fn \in CurvFns /\ pc = "raised"
    /\ args.lat2d = <<2, 1>> /\ args.lon2d = <<2, 1>>
    /\ Len(args.fi.shape) = 2

\* The rectilinear axes of a call, where the wrapper takes a rectilinear grid.
RectAxes(f, a) ==
    CASE f \in GridFns -> {a.lat1d, a.lon1d}
      [] f = "linint2_points" -> {a.xi, a.yi} \ {NoneArg}
      [] f = "triple2grid" -> {a.xgrid, a.ygrid}
      [] OTHER -> {}

\* C10: a rectilinear axis with fewer than 2 points makes the wrapper raise
\* without invoking the kernel.
C10_SmallRectilinearAxis ==
    (pc # "idle" /\ \E s \in RectAxes(fn, args) : Len(s) = 1 /\ s[1] < 2)
        => (pc = "raised" /\ kernelCalls = 0 /\ lazy.kernel = "none")

\* The wrappers that take a rectilinear grid.
RectFns == {"rgrid2rcm", "rcm2rgrid", "linint2_points", "triple2grid"}

\* A vector of coordinate values that increases throughout or decreases
\* throughout, with no repeated value.
StrictlyMonotonic(v) ==
    \/ \A i \in 1..(Len(v) - 1) : v[i] < v[i + 1]
    \/ \A i \in 1..(Len(v) - 1) : v[i] > v[i + 1]

\* C11: a rectilinear axis (lat1d / lon1d / xi / yi / xgrid / ygrid) that is
\* not strictly monotonic makes rgrid2rcm, rcm2rgrid, linint2_points and
\* triple2grid raise; the kernel is never invoked or mapped with such an axis.
C11_NonMonotonicAxisRejected ==
    (fn \in RectFns /\ pc # "idle"
        /\ \E i \in 1..2 : ~StrictlyMonotonic(args.axisValues[i]))
        => (pc = "raised" /\ kernelCalls = 0 /\ lazy.kernel = "none")

\* The two output coordinate vectors of the point set of a call.
PointSet(f, a) ==
    IF f = "rcm2points" THEN <<a.lat1dPoints, a.lon1dPoints>> ELSE <<a.xo, a.yo>>

\* C12: output coordinate vectors of different lengths (lat1dPoints /
\* lon1dPoints, xo / yo) make rcm2points and linint2_points raise without
\* invoking the kernel.
C12_PointSetLengthsDiffer ==
    (fn \in {"rcm2points", "linint2_points"} /\ pc # "idle"
        /\ PointSet(fn, args)[1] # PointSet(fn, args)[2])
        => (pc = "raised" /\ kernelCalls = 0 /\ fo.kernel = "none")

\* Witness of C12: a linint2_points call that is well-formed but for its point
\* set, stopped by the length check.
C12_Witness ==
    /\ fn = "linint2_points" /\ pc = "raised" /\ kernelCalls = 0
    /\ args.xo = <<1>> /\ args.yo = <<2>>
    /\ args.fi.shape = <<2, 2>> /\ ~args.fi.xr
    /\ args.xi = <<2>> /\ args.yi = <<2>>

\* fi has fewer than two dimensions, or its two rightmost dimensions are not
\* (number of latitudes, number of longitudes) of the source grid the call
\* declares: lat1d x lon1d for rgrid2rcm, the shape of lat2d for the others.
FieldOffGrid(f, a) ==
    \/ Len(a.fi.shape) < 2
    \/ /\ f = "rgrid2rcm"
       /\ Last2(a.fi.shape) # <<a.lat1d[1], a.lon1d[1]>>
    \/ /\ f # "rgrid2rcm" /\ Len(a.lat2d) >= 2
       /\ Last2(a.fi.shape) # SubSeq(a.lat2d, 1, 2)

\* C13: a field with fewer than two dimensions, or whose two rightmost
\* dimensions are not those of the declared source grid, makes rcm2rgrid,
\* rcm2points and rgrid2rcm raise without invoking or mapping the kernel.
C13_FieldOffSourceGrid ==
    (fn \in CurvFns /\ pc # "idle" /\ FieldOffGrid(fn, args))
        => (pc = "raised" /\ kernelCalls = 0 /\ lazy.kernel = "none")

\* Witness of C13: rgrid2rcm on a 2 x 2 source grid with a 2 x 1 field,
\* stopped by the field check.
C13_Witness ==
    /\ fn = "rgrid2rcm" /\ raised = "DimensionError" /\ kernelCalls = 0
    /\ args.lat1d = <<2>> /\ args.lon1d = <<2>> /\ args.fi.shape = <<2, 1>>
    /\ args.lat2d = <<2, 2>> /\ args.lon2d = <<2, 2>>

\* The field of the call does not lie on the source coordinates passed with
\* it: in linint2_points fi's two rightmost dimensions are not
\* (len(yi), len(xi)); in grid2triple len(x) is not z's right dimension or
\* len(y) is not z's left dimension.
FieldOffCoordinates(f, a) ==
    \/ /\ f = "linint2_points"
       /\ a.xi # NoneArg /\ a.yi # NoneArg
       /\ Last2(a.fi.shape) # <<a.yi[1], a.xi[1]>>
    \/ /\ f = "grid2triple"
       /\ a.z.shape # <<a.y[1], a.x[1]>>

\* C14: a field whose two rightmost dimensions do not match the source
\* coordinates makes linint2_points and grid2triple raise without invoking
\* the kernel.
C14_FieldOffCoordinates ==
    (fn \in {"linint2_points", "grid2triple"} /\ pc # "idle"
        /\ FieldOffCoordinates(fn, args))
        => (pc = "raised" /\ kernelCalls = 0 /\ fo.kernel = "none")

\* The arguments of a triple2grid call break a documented shape rule: one of
\* x, y, xgrid, ygrid is not one-dimensional, or len(x) differs from len(y) or
\* from the size of data's rightmost dimension.
TripleOffShape(a) ==
    \/ \E s \in {a.x, a.y, a.xgrid, a.ygrid} : Len(s) # 1
    \/ /\ Len(a.x) >= 1 /\ Len(a.y) >= 1
       /\ a.x[1] # a.y[1]
    \/ /\ Len(a.x) >= 1 /\ Len(a.data.shape) >= 1
       /\ a.x[1] # a.data.shape[Len(a.data.shape)]

\* C15: triple2grid raises without invoking the kernel whenever len(x) differs
\* from len(y) or from data's rightmost dimension, or one of x, y, xgrid,
\* ygrid is not one-dimensional (zero-dimensional included).
C15_TripleOffShape ==
    (fn = "triple2grid" /\ pc # "idle" /\ TripleOffShape(args))
        => (pc = "raised" /\ kernelCalls = 0 /\ fo.kernel = "none")

\* The six wrappers that take a meta argument beside a field.
MetaFns == {"rgrid2rcm", "rcm2rgrid", "rcm2points", "linint2_points",
            "grid2triple", "triple2grid"}

\* The input field of a call and the meta option passed with it.
InputField(f, a) ==
    CASE f = "grid2triple" -> a.z
      [] f = "triple2grid" -> a.data
      [] OTHER -> a.fi
MetaArg(f, a) == IF f = "triple2grid" THEN a.kw.meta ELSE a.meta

\* C16: a call with meta=True whose input field is an xarray.DataArray does
\* not return a result: it ends in an exception (MetaError when nothing else
\* is wrong with the call).
C16_MetaUnsupported ==
    (fn \in MetaFns /\ pc # "idle"
        /\ MetaArg(fn, args) /\ InputField(fn, args).xr)
        => pc = "raised"

\* C17: a `method` option that is supplied and is not the integer 0 or 1 makes
\* triple2grid raise without invoking the kernel; a `method` of 0 or 1 (False
\* and True are the integers 0 and 1) reaches the kernel, whenever the kernel
\* is invoked, with the same value under the key `method`.
C17_MethodOption ==
    (fn = "triple2grid" /\ pc # "idle" /\ args.kw.method.kind # "absent")
        => LET m == args.kw.method
           IN  IF IsInt(m) /\ m.val \in {0, 1}
               THEN kernelCalls > 0
                        => {o \in fo.options : o[1] = "method"} = {<<"method", m.val>>}
               ELSE pc = "raised" /\ kernelCalls = 0 /\ fo.kernel = "none"

\* Witness of C17: method=2 on a well-formed call, rejected with TypeError.
C17_Witness ==
    /\ fn = "triple2grid" /\ raised = "TypeError" /\ kernelCalls = 0
    /\ args.kw.method = [kind |-> "int", val |-> 2]
    /\ args.data.storage = "numpy"
    /\ args.kw.distmx.kind = "absent" /\ args.kw.domain.kind = "absent"

\* C18: a `distmx` outside its domain (negative or zero) is a fatal
\* configuration error of triple2grid: the kernel is never invoked with
\* options that carry such a distmx.
C18_DistmxDomain ==
    (fn = "triple2grid" /\ kernelCalls > 0)
        => \A o \in fo.options : o[1] = "distmx" => o[2] > 0

\* C19: the missing value moc_globe_atl hands to the kernel is double
\* precision exactly when the output is, that is when one of a_wvel, a_bolus,
\* a_submeso is double, and single precision otherwise.
C19_MissingValuePrecision ==
    (fn = "moc_globe_atl" /\ kernelCalls > 0)
        => LET double == \E x \in {args.a_wvel, args.a_bolus, args.a_submeso} :
                            x.dtype = "float64"
           IN  fo.msg = (IF double THEN "float64" ELSE "float32")

\* C20: inputs are immutable.  After any call of any public function,
\* successful or failing, whatever its options, every object the caller passed
\* (data arrays, coordinate arrays, the attribute dictionary of an xarray
\* input) is as it was when the call was made; computing the blocks of a lazy
\* result changes none of them either.
C20_InputsUnchanged == pc # "idle" => inputs = args

\* C26: source coordinates of linint2_points.  A field that is not a
\* DataArray, with xi or yi omitted, raises CoordinateError without invoking
\* the kernel.  For a DataArray field an omitted xi (yi) is replaced by the
\* coordinate of the field's last (second-to-last) dimension, and an explicit
\* xi or yi is what the kernel receives.
C26_SourceCoordinates ==
    (pc # "idle" /\ fn = "linint2_points") =>
        /\ (~args.fi.xr /\ (args.xi = NoneArg \/ args.yi = NoneArg))
               => (raised = "CoordinateError" /\ kernelCalls = 0)
        /\ kernelCalls > 0 =>
               /\ fo.xi = (IF args.xi # NoneArg THEN args.xi
                           ELSE <<args.fi.shape[Len(args.fi.shape)]>>)
               /\ fo.yi = (IF args.yi # NoneArg THEN args.yi
                           ELSE <<args.fi.shape[Len(args.fi.shape) - 1]>>)

\* C27: the options triple2grid hands to the kernel contain a distmx entry
\* exactly when a method equal to 1 was supplied and a distmx was supplied.
\* With method absent or 0 a supplied distmx is dropped without an error.  The
\* options hold no key other than method, distmx and domain.
C27_DistmxNeedsMethod ==
    (pc # "idle" /\ fn = "triple2grid" /\ kernelCalls > 0) =>
        LET kw == args.kw
            keys == {o[1] : o \in fo.options}
        IN  /\ "distmx" \in keys <=>
                (IsInt(kw.method) /\ kw.method.val = 1 /\ kw.distmx.kind # "absent")
            /\ keys \subseteq {"method", "distmx", "domain"}

\* A call with method absent or 0 and a distmx supplied reached the kernel,
\* and so did one with method 1 and a distmx.
C27_Witness ==
    /\ pc = "returned" /\ fn = "triple2grid" /\ kernelCalls = 1
    /\ args.kw.distmx.kind # "absent"
    /\ args.kw.method.kind \in {"absent", "int"}
    /\ args.kw.method.kind = "int" => args.kw.method.val = 0
    /\ raised = "none"

\* Arguments every shape check of the documentation accepts: a plain numpy
\* field, meta off, default options, coordinate arrays of the documented rank
\* and of at least two points, strictly monotonic axes, and a field whose two
\* rightmost dimensions are those of the source grid.
WellFormed(f, a) ==
    /\ InputField(f, a).storage = "numpy" /\ ~InputField(f, a).xr
    /\ ~MetaArg(f, a)
    /\ CASE f \in GridFns ->
              /\ Len(a.lat2d) = 2 /\ a.lon2d = a.lat2d /\ ~TooFew(a.lat2d)
              /\ Len(a.lat1d) = 1 /\ Len(a.lon1d) = 1
              /\ a.lat1d[1] >= 2 /\ a.lon1d[1] >= 2
              /\ Len(a.fi.shape) >= 2
              /\ Last2(a.fi.shape) = (IF f = "rgrid2rcm"
                                      THEN <<a.lat1d[1], a.lon1d[1]>> ELSE a.lat2d)
              /\ \A i \in 1..2 : StrictlyMonotonic(a.axisValues[i])
         [] f = "rcm2points" ->
              /\ Len(a.lat2d) = 2 /\ a.lon2d = a.lat2d /\ ~TooFew(a.lat2d)
              /\ Len(a.lat1dPoints) = 1 /\ a.lon1dPoints = a.lat1dPoints
              /\ Len(a.fi.shape) >= 2 /\ Last2(a.fi.shape) = a.lat2d
         [] f = "linint2_points" ->
              /\ a.xi # NoneArg /\ a.yi # NoneArg
              /\ Len(a.xi) = 1 /\ Len(a.yi) = 1 /\ a.xi[1] >= 2 /\ a.yi[1] >= 2
              /\ Len(a.xo) = 1 /\ a.yo = a.xo
              /\ Len(a.fi.shape) >= 2 /\ Last2(a.fi.shape) = <<a.yi[1], a.xi[1]>>
              /\ \A i \in 1..2 : StrictlyMonotonic(a.axisValues[i])
         [] f = "grid2triple" ->
              /\ Len(a.x) = 1 /\ Len(a.y) = 1
              /\ a.z.shape = <<a.y[1], a.x[1]>>
         [] f = "triple2grid" ->
              /\ a.kw = NoOptions
              /\ Len(a.data.shape) >= 1 /\ ~TripleOffShape(a)
              /\ a.xgrid[1] >= 2 /\ a.ygrid[1] >= 2
              /\ \A i \in 1..2 : StrictlyMonotonic(a.axisValues[i])
         [] OTHER -> FALSE

\* C28: a call of rcm2rgrid, rgrid2rcm, rcm2points, linint2_points,
\* grid2triple or triple2grid with well-formed numpy inputs and meta off
\* invokes the compiled kernel exactly once on the whole field, builds no lazy
\* graph, and returns the kernel's result; it does not end in an error.
C28_WellFormedCallSucceeds ==
    (pc # "idle" /\ fn \in MetaFns /\ WellFormed(fn, args)) =>
        /\ pc = "returned" /\ raised = "none"
        /\ kernelCalls = 1 /\ lazy.kernel = "none"
        /\ fo.kernel # "none"

\* A shape check of the wrapper's code finds the arguments at fault: the
\* arrays have enough dimensions for the shape tests to be evaluated, and the
\* grids differ or are too small, the point vectors differ, the field has too
\* few dimensions or is off its grid, or a triple vector or grid axis has more
\* than one dimension or the wrong length.
ShapeFailure(f, a) ==
    CASE f \in CurvFns ->
              /\ Len(a.lat2d) = 2 /\ Len(a.lon2d) = 2
              /\ \/ a.lat2d # a.lon2d
                 \/ TooFew(a.lat2d)
                 \/ FieldOffGrid(f, a)
                 \/ (f = "rcm2points" /\ Len(a.lat1dPoints) = 1
                        /\ Len(a.lon1dPoints) = 1
                        /\ a.lat1dPoints # a.lon1dPoints)
      [] f = "linint2_points" ->
              /\ a.fi.xr \/ (a.xi # NoneArg /\ a.yi # NoneArg)
              /\ Len(a.xo) = 1 /\ Len(a.yo) = 1
              /\ a.xo # a.yo \/ Len(a.fi.shape) < 2
      [] f = "grid2triple" -> Len(a.z.shape) # 2
      [] f = "triple2grid" ->
              /\ \A s \in {a.x, a.y, a.xgrid, a.ygrid, a.data.shape} : Len(s) >= 1
              /\ \/ \E s \in {a.x, a.y, a.xgrid, a.ygrid} : Len(s) > 1
                 \/ a.x[1] # a.y[1]
                 \/ a.x[1] # a.data.shape[Len(a.data.shape)]
      [] OTHER -> FALSE

\* C29: every shape-validation failure detected by grid2triple,
\* linint2_points, rcm2points, rcm2rgrid, rgrid2rcm and triple2grid reaches
\* the caller as DimensionError, never as an exception of another type.
C29_ShapeFailureIsDimensionError ==
    (pc # "idle" /\ fn \in MetaFns /\ ShapeFailure(fn, args))
        => raised = "DimensionError"

EofFns == {"eofunc", "eofunc_ts"}

Ran(f) == pc = "returned" /\ fn = f /\ num.values.kind = f /\ kernelCalls > 0

\* Target k of a linint2_points call lies in a source cell (a cell of the
\* wrapped axis included when the cyclic flag is set) one of whose four
\* corner values is the missing value.
InCellWithMissingCorner(v, k) ==
    LET xs == IF v.icycx THEN WrapAxis(v.xi) ELSE v.xi
        fs == IF v.icycx THEN WrapField(v.fi) ELSE v.fi
    IN  \E i \in 1..(Len(xs) - 1), j \in 1..(Len(v.yi) - 1) :
            /\ xs[i] <= v.xo[k] /\ v.xo[k] <= xs[i + 1]
            /\ v.yi[j] <= v.yo[k] /\ v.yo[k] <= v.yi[j + 1]
            /\ \E di \in 0..1, dj \in 0..1 : fs[j + dj][i + di] = v.msg

\* C22: bilinear strict missing policy.  In linint2_points every target whose
\* bracketing source cell has at least one of its four corner values equal to
\* the missing value gets the missing value; nothing is interpolated from
\* fewer than four corners.
C22_BilinearStrictMissing ==
    Ran("linint2_points") =>
        \A k \in 1..Len(num.values.xo) :
            InCellWithMissingCorner(num.values, k)
                => IsMissing(num.result[k], num.values.msg)

\* A target in the middle of a cell with exactly one missing corner came out
\* missing.
C22_Witness ==
    /\ Ran("linint2_points")
    /\ num.values.fi[1][1] = Missing
    /\ \A c \in {num.values.fi[1][2], num.values.fi[2][1], num.values.fi[2][2]} :
           c # Missing
    /\ num.values.xo[1] = Mid /\ num.values.yo[1] = Mid
    /\ IsMissing(num.result[1], Missing)

InterpFns == {"linint2_points", "rcm2rgrid", "rgrid2rcm", "rcm2points"}

\* The target points <<x, y>> of the numbers v of an interpolation call, a
\* target grid or mesh taken row by row.
Targets(v) ==
    CASE v.kind = "linint2_points" -> [k \in 1..Len(v.xo) |-> <<v.xo[k], v.yo[k]>>]
      [] v.kind = "rcm2points" ->
            [k \in 1..Len(v.lon1dPoints) |-> <<v.lon1dPoints[k], v.lat1dPoints[k]>>]
      [] v.kind = "rgrid2rcm" ->
            [k \in 1..(Len(v.lat2d) * Len(v.lat2d[1])) |->
                LET r == ((k - 1) \div Len(v.lat2d[1])) + 1
                    c == ((k - 1) % Len(v.lat2d[1])) + 1
                IN  <<v.lon2d[r][c], v.lat2d[r][c]>>]
      [] v.kind = "rcm2rgrid" ->
            [k \in 1..(Len(v.lat1d) * Len(v.lon1d)) |->
                <<v.lon1d[((k - 1) % Len(v.lon1d)) + 1],
                  v.lat1d[((k - 1) \div Len(v.lon1d)) + 1]>>]

\* The outputs of the call in the order of Targets.
Outputs(v, res) ==
    IF v.kind \in {"linint2_points", "rcm2points"} THEN res
    ELSE [k \in 1..(Len(res) * Len(res[1])) |->
            res[((k - 1) \div Len(res[1])) + 1][((k - 1) % Len(res[1])) + 1]]

\* The source coordinates of v along x and along y.
SourceXs(v) ==
    CASE v.kind = "linint2_points" -> {v.xi[i] : i \in 1..Len(v.xi)}
      [] v.kind = "rgrid2rcm" -> {v.lon1d[i] : i \in 1..Len(v.lon1d)}
      [] OTHER -> {v.lon2d[r][c] : r \in 1..Len(v.lon2d), c \in 1..Len(v.lon2d[1])}
SourceYs(v) ==
    CASE v.kind = "linint2_points" -> {v.yi[i] : i \in 1..Len(v.yi)}
      [] v.kind = "rgrid2rcm" -> {v.lat1d[i] : i \in 1..Len(v.lat1d)}
      [] OTHER -> {v.lat2d[r][c] : r \in 1..Len(v.lat2d), c \in 1..Len(v.lat2d[1])}

\* t lies outside the range spanned by the coordinates S.
OffRange(S, t) == (\A s \in S : t < s) \/ (\A s \in S : t > s)
OutsideEnvelope(v, p) == OffRange(SourceXs(v), p[1]) \/ OffRange(SourceYs(v), p[2])

SourceValues(v) == {v.fi[r][c] : r \in 1..Len(v.fi), c \in 1..Len(v.fi[1])}

\* C21: no extrapolation.  A call of linint2_points, rcm2rgrid, rgrid2rcm or
\* rcm2points returns one output per target; at every target outside the
\* envelope of the source coordinates in either axis the output is exactly
\* the missing value, and the other targets are still computed: a target
\* inside the envelope of a field without missing entries has a value.
C21_NoExtrapolation ==
    (pc # "idle" /\ num.values.kind \in InterpFns) =>
        LET v == num.values
            T == Targets(v)
        IN  /\ pc = "returned" /\ kernelCalls = 1
            /\ Len(Outputs(v, num.result)) = Len(T)
            /\ \A k \in 1..Len(T) :
                  /\ OutsideEnvelope(v, T[k])
                        => IsMissing(Outputs(v, num.result)[k], v.msg)
                  /\ (~OutsideEnvelope(v, T[k]) /\ v.msg \notin SourceValues(v))
                        => ~IsMissing(Outputs(v, num.result)[k], v.msg)

IdwFns == {"rcm2rgrid", "rgrid2rcm", "rcm2points"}

\* The source points <<x, y, value>> of an inverse distance call.  The
\* sources drawn have four points: they are the neighbours of every target
\* inside the envelope.
SourcePoints(v) ==
    IF v.kind = "rgrid2rcm"
    THEN [c \in 1..4 |-> <<v.lon1d[((c - 1) % 2) + 1], v.lat1d[((c - 1) \div 2) + 1],
                           v.fi[((c - 1) \div 2) + 1][((c - 1) % 2) + 1]>>]
    ELSE [c \in 1..4 |->
            LET r == ((c - 1) \div 2) + 1
                k == ((c - 1) % 2) + 1
            IN  <<v.lon2d[r][k], v.lat2d[r][k], v.fi[r][k]>>]

\* o is the average of the usable points among S weighted by 1 / distance^2
\* from p, the points carrying msg counting neither in the sum nor in the
\* denominator; a usable point at p itself gives its own value.  Stated with
\* the weights multiplied out: the sum of (value - o) / distance^2 is zero.
IsWeightedAverage(o, S, p, msg) ==
    LET use(c) == S[c][3] # msg
        d(c) == Dist2(p[1], p[2], S[c][1], S[c][2])
        others(c) == SeqProd([e \in 1..4 |-> IF e # c /\ use(e) THEN d(e) ELSE 1])
    IN  IF \E c \in 1..4 : use(c) /\ d(c) = 0
        THEN \E c \in 1..4 : use(c) /\ d(c) = 0 /\ RatEq(o, <<S[c][3], 1>>)
        ELSE SeqSum([c \in 1..4 |->
                       IF use(c) THEN (S[c][3] * o[2] - o[1]) * others(c) ELSE 0]) = 0

\* C23: inverse distance missing policy.  In rcm2rgrid, rgrid2rcm and
\* rcm2points the source points carrying the missing value are left out of
\* the weighted sum and of its denominator; the output at a target inside the
\* source envelope is the missing value only if none of its neighbours is
\* usable; with one of four neighbours missing it is the distance-weighted
\* average of the other three.
C23_IdwMissingPolicy ==
    (pc # "idle" /\ num.values.kind \in IdwFns) =>
        LET v == num.values
            T == Targets(v)
            S == SourcePoints(v)
        IN  /\ pc = "returned" /\ kernelCalls = 1
            /\ \A k \in 1..Len(T) :
                  ~OutsideEnvelope(v, T[k]) =>
                      LET o == Outputs(v, num.result)[k]
                      IN  IF \A c \in 1..4 : S[c][3] = v.msg
                          THEN IsMissing(o, v.msg)
                          ELSE /\ ~IsMissing(o, v.msg)
                               /\ IsWeightedAverage(o, S, T[k], v.msg)

\* C24: grid2triple on an ny x mx field returns exactly ny * mx minus the
\* number of entries of z equal to the missing value triples: the triple
\* (x, y, value) of each entry that is not missing, none for a missing entry,
\* none twice.
C24_TriplesOfNonMissing ==
    (pc # "idle" /\ num.values.kind = "grid2triple") =>
        LET v == num.values
            t == num.result
            E == {<<i, j>> \in (1..Len(v.y)) \X (1..Len(v.x)) : v.z[i][j] # v.msg}
        IN  /\ pc = "returned" /\ kernelCalls = 1
            /\ Len(t) = Len(v.y) * Len(v.x)
                        - Cardinality(((1..Len(v.y)) \X (1..Len(v.x))) \ E)
            /\ \A e \in E : \E k \in 1..Len(t) : t[k] = <<v.x[e[2]], v.y[e[1]], v.z[e[1]][e[2]]>>
            /\ \A k \in 1..Len(t) : t[k][3] # v.msg
            /\ \A k \in 1..Len(t), l \in 1..Len(t) : k # l => t[k] # t[l]

\* A field with two missing entries and equal values among the others gave
\* four triples.
C24_Witness ==
    /\ Ran("grid2triple")
    /\ num.values.z = <<<<Missing, 1, 1>>, <<0, Missing, 1>>>>
    /\ Len(num.result) = 4

\* C25: round trip.  For a 2-D field on a rectilinear grid, grid2triple
\* followed by triple2grid onto the same grid reproduces every cell that is
\* not missing exactly and leaves every missing cell missing.
C25_RoundTrip ==
    (pc # "idle" /\ num.values.kind = "triple2grid" /\ num.before.kind = "grid2triple") =>
        LET z == num.before.z
            g == num.result
        IN  /\ pc = "returned" /\ kernelCalls = 1
            /\ Len(g) = Len(z)
            /\ \A i \in 1..Len(z) :
                  /\ Len(g[i]) = Len(z[i])
                  /\ \A j \in 1..Len(z[i]) :
                        /\ z[i][j] # num.before.msg => g[i][j] = z[i][j]
                        /\ z[i][j] = num.before.msg => g[i][j] = num.values.msg

\* A field with missing cells and with cells of different values went
\* through the round trip.
C25_Witness ==
    /\ Ran("triple2grid")
    /\ num.before.kind = "grid2triple"
    /\ num.before.z = <<<<Missing, 1, 0>>, <<0, Missing, 1>>>>
    /\ num.result = <<<<Missing, 1, 0>>, <<0, Missing, 1>>>>

====
